---- MODULE Spec2Model ----
(***************************************************************************)
(* createPausable of chlbri/pausable: a three-state machine (stopped /     *)
(* running / paused) that owns at most one subscription handle to an RxJS  *)
(* observable and relays the observable's events to an observer.           *)
(*                                                                         *)
(* The controller runs in a single calling context, so the only           *)
(* interleavings are the reentrant ones: source$.subscribe may deliver     *)
(* values synchronously, and the observer's value handler may call the     *)
(* controller back.  The call stack is therefore part of the state:        *)
(* `stack` holds the frames of the calls in progress, innermost first.     *)
(*                                                                         *)
(* Spec: the source emits inside subscribe and/or is a hot Subject.        *)
(* SpecCold: the source is a cold interval(ms).pipe(take(n)).              *)
(* SpecCommand: as Spec, every operation called through command(action).   *)
(***************************************************************************)
EXTENDS Integers, Sequences, FiniteSets, TLC

(* ------------------------------ bounds -------------------------------- *)
\* subscriptions the source hands out in one run
MaxSubs == 2
\* values a hot source produces in one run
MaxProduced == 2
\* values a source emits synchronously inside subscribe
MaxSync == 2
\* values a cold source emits to one subscription before it completes
MaxCold == 3

(* ------------------------------ types --------------------------------- *)
States == {"stopped", "running", "paused"}
Commands == {"start", "stop", "pause", "resume"}
Channels == {"next", "error", "complete"}

\* sourceSubscription = null
NoSub == 0
\* `new Error('Test error')`: the payload of the source's error signal
ErrorValue == -1
\* a completion signal carries no payload
NoValue == 0

\* the shapes of the observer argument: undefined, a function, or a partial
\* or full observer object (an object with only next takes the same branches
\* of the relay as the full one)
ObjectShapes == {{}, {"error", "complete"}, Channels}
SubArgs ==
    {[kind |-> "undefined", handlers |-> {}], [kind |-> "function", handlers |-> {}]}
        \cup {[kind |-> "object", handlers |-> h] : h \in ObjectShapes}

\* What a source does inside subscribe: it emits 1..sync synchronously, then
\* may terminate synchronously.  sync = 0 and end = "none" is a hot source
\* (Subject): a new subscription only observes future events.
SourceKinds == [sync : 0..MaxSync, end : {"none", "complete", "error"}]

\* A cold source, interval(ms).pipe(take(n)): every subscription gets 0..n-1,
\* one value per timer tick, and then the completion signal; nothing is
\* emitted inside subscribe.
ColdKinds == [sync : {0}, end : {"none"}, take : 1..MaxCold]

\* the p-th value a hot source produces (distinct from the synchronous ones)
HotValue(p) == MaxSync + p

VARIABLES
    state,              \* let state: State
    sourceSubscription, \* let sourceSubscription: the held handle, or NoSub
    subs,               \* the source's subscriptions of this controller, by handle
    stack,              \* call frames in progress, innermost first
    calls,              \* history of the observer's handler invocations
    produced,           \* history of the values the hot source produced
    terminated,         \* "no", or the terminal signal the hot source has sent
    source,             \* source$: its behaviour inside subscribe
    observer,           \* the observer argument
    reentered,          \* the observer has called back into the controller
    last,               \* the caller's latest operation call, while nothing followed
    everStarted,        \* start() has been called
    afterStop,          \* stop() has been called and start() has not been since
    initialObserver,    \* the observer argument as it was at construction
    other               \* a second controller on the same source, or NoOther

vars ==
    <<state, sourceSubscription, subs, stack, calls, produced, terminated,
      source, observer, reentered, last, everStarted, afterStop,
      initialObserver, other>>

\* createPausable was called once
NoOther == [id |-> 0]

\* op: the operation; re: the observer called back during it; n, c: the numbers
\* of subscriptions and of handler invocations when it was called
NoCall == [op |-> "none", re |-> FALSE, n |-> 0, c |-> 0]

\* faulty variant: createPausable subscribes at once
InitSubscribed ==
    /\ state = "stopped"
    /\ sourceSubscription = 1
    /\ subs = <<[status |-> "live", cancels |-> 0, pos |-> 0, end |-> "none"]>>
    /\ stack = <<>>
    /\ calls = <<>>
    /\ produced = <<>>
    /\ terminated = "no"
    /\ source \in SourceKinds
    /\ observer \in SubArgs
    /\ reentered = FALSE
    /\ last = NoCall
    /\ everStarted = FALSE
    /\ afterStop = FALSE
    /\ initialObserver = observer
    /\ other = NoOther

\* createPausable(source$, observer?)
Init ==
    /\ state = "stopped"
    /\ sourceSubscription = NoSub
    /\ subs = <<>>
    /\ stack = <<>>
    /\ calls = <<>>
    /\ produced = <<>>
    /\ terminated = "no"
    /\ source \in SourceKinds
    /\ observer \in SubArgs
    /\ reentered = FALSE
    /\ last = NoCall
    /\ everStarted = FALSE
    /\ afterStop = FALSE
    /\ initialObserver = observer
    /\ other = NoOther

(* --------------------------- the source ------------------------------- *)
IsLive(ss, h) == h \in 1..Len(ss) /\ ss[h].status = "live"

\* the live subscriptions, in subscription order
LiveSubs(ss) == SelectSeq([i \in 1..Len(ss) |-> i], LAMBDA h : ss[h].status = "live")

\* source$.subscribe(...): a new live subscription; its handle is its index;
\* pos: the number of values a cold source has emitted to it; end: the
\* terminal signal the source has sent it
NewSubscription(ss) ==
    Append(ss, [status |-> "live", cancels |-> 0, pos |-> 0, end |-> "none"])

\* handle.unsubscribe(): closes a live subscription; safe on a finished one
Close(ss, h) ==
    [ss EXCEPT ![h].status = IF @ = "live" THEN "cancelled" ELSE @,
               ![h].cancels = @ + 1]

\* the source finishes a subscription when it sends it error or complete
Finish(ss, h, sig) == [ss EXCEPT ![h].status = "finished", ![h].end = sig]

(* ------------------------- the call stack ----------------------------- *)
AtTop == stack = <<>>
Top == stack[1]
InHandler == stack /= <<>> /\ Top.k = "handler"
\* the caller calls between calls; the observer's value handler may call back
CanCall == AtTop \/ InHandler

SubscribeFrame(h) ==
    [k |-> "subscribe", sub |-> h,
     left |-> IF terminated = "no" THEN source.sync ELSE 0,
     end |-> IF terminated = "no" THEN source.end ELSE terminated]

HandlerFrame == [k |-> "handler"]

\* ghost bookkeeping of an operation call
Note(op) ==
    /\ reentered' = (reentered \/ ~AtTop)
    /\ last' = IF AtTop THEN [op |-> op, re |-> FALSE, n |-> Len(subs), c |-> Len(calls)]
               ELSE IF last.op = "none" THEN last ELSE [last EXCEPT !.re = TRUE]
    /\ everStarted' = (everStarted \/ op = "start")
    /\ afterStop' = IF op = "stop" THEN TRUE ELSE IF op = "start" THEN FALSE ELSE afterStop
    /\ UNCHANGED <<initialObserver, other>>

(* ----------------------------- the relay ------------------------------ *)
\* typeof observer === 'function' || observer?.next
HasNext(o) == o.kind = "function" \/ (o.kind = "object" /\ "next" \in o.handlers)

\* faulty variant: a function observer is taken for a handler of every channel
HasEndCallable(o, sig) ==
    o.kind = "function" \/ (o.kind = "object" /\ sig \in o.handlers)

\* typeof observer === 'object' && observer?.error (resp. complete)
HasEnd(o, sig) == o.kind = "object" /\ sig \in o.handlers

\* faulty variant: the relay forwards whatever the state
GateOpen(s) == TRUE

\* faulty variant: error and complete are gated like next
RelayEndGated(sig, h, log) ==
    IF state = "running" /\ HasEnd(observer, sig)
        THEN Append(log, [ch |-> sig, v |-> IF sig = "error" THEN ErrorValue ELSE NoValue,
                          st |-> state, sub |-> h, p |-> 0])
        ELSE log

\* if (state === 'running')
Gate(s) == s = "running"

Invocation(ch, v, h, p) == [ch |-> ch, v |-> v, st |-> state, sub |-> h, p |-> p]

\* next: the relay receives value v of subscription h (p: its production
\* number, 0 for a synchronous emission); `rest` is the stack to continue with.
RelayNext(v, h, p, rest) ==
    IF Gate(state) /\ HasNext(observer)
        THEN /\ calls' = Append(calls, Invocation("next", v, h, p))
             /\ stack' = <<HandlerFrame>> \o rest
        ELSE /\ calls' = calls
             /\ stack' = rest

\* error: err => ... observer.error(err) ; complete: () => ... observer.complete()
RelayEnd(sig, h, log) ==
    IF HasEnd(observer, sig)
        THEN Append(log, Invocation(sig, IF sig = "error" THEN ErrorValue ELSE NoValue, h, 0))
        ELSE log

(* --------------------------- the operations --------------------------- *)
\* faulty variant: subscribe reactivates the subscription it held last
subscribeReuse ==
    /\ Len(subs) < MaxSubs
    /\ IF subs /= <<>> /\ subs[Len(subs)].status = "cancelled"
         THEN /\ subs' = [subs EXCEPT ![Len(subs)].status = "live"]
              /\ stack' = <<SubscribeFrame(Len(subs))>> \o stack
         ELSE /\ subs' = NewSubscription(subs)
              /\ stack' = <<SubscribeFrame(Len(subs) + 1)>> \o stack
    /\ UNCHANGED <<sourceSubscription, calls>>

\* faulty variant: subscribe registers the relay twice
subscribeTwice ==
    /\ Len(subs) + 1 < MaxSubs
    /\ subs' = NewSubscription(NewSubscription(subs))
    /\ stack' = <<SubscribeFrame(Len(subs) + 2)>> \o stack
    /\ UNCHANGED <<sourceSubscription, calls>>

\* subscribe(): the call of source$.subscribe(relay).  The assignment of the
\* returned handle to sourceSubscription happens when it returns: SubscribeReturn.
subscribe ==
    /\ Len(subs) < MaxSubs
    /\ subs' = NewSubscription(subs)
    /\ stack' = <<SubscribeFrame(Len(subs) + 1)>> \o stack
    /\ UNCHANGED <<sourceSubscription, calls>>

\* faulty variant: the handle is not cleared after unsubscribing
unsubscribeKeepsHandle ==
    /\ subs' = IF sourceSubscription /= NoSub THEN Close(subs, sourceSubscription) ELSE subs
    /\ UNCHANGED sourceSubscription

\* faulty variant: the held subscription is dropped without unsubscribing
unsubscribeForgotten ==
    /\ subs' = subs
    /\ sourceSubscription' = NoSub

\* faulty variant: unsubscribing a finished subscription throws, so the handle
\* is not cleared
unsubscribeThrowsOnFinished ==
    IF sourceSubscription /= NoSub /\ IsLive(subs, sourceSubscription)
        THEN /\ subs' = Close(subs, sourceSubscription)
             /\ sourceSubscription' = NoSub
        ELSE UNCHANGED <<subs, sourceSubscription>>

\* unsubscribe()
unsubscribe ==
    IF sourceSubscription /= NoSub
        THEN /\ subs' = Close(subs, sourceSubscription)
             /\ sourceSubscription' = NoSub
        ELSE UNCHANGED <<subs, sourceSubscription>>

\* an early return
Return == UNCHANGED <<state, sourceSubscription, subs, stack, calls>>

\* faulty variant: start() subscribes without setting the state first
startStateLate ==
    /\ CanCall
    /\ Note("start")
    /\ IF state /= "stopped" THEN Return
       ELSE state' = state /\ subscribe
    /\ UNCHANGED <<produced, terminated, source, observer>>

\* faulty variant: once the source has terminated, start() does nothing
startDeadAfterEnd ==
    /\ CanCall
    /\ Note("start")
    /\ IF state /= "stopped" \/ terminated /= "no" THEN Return
       ELSE state' = "running" /\ subscribe
    /\ UNCHANGED <<produced, terminated, source, observer>>

\* faulty variant: without observer start() does nothing
startNeedsObserver ==
    /\ CanCall
    /\ Note("start")
    /\ IF state /= "stopped" \/ observer.kind = "undefined" THEN Return
       ELSE state' = "running" /\ subscribe
    /\ UNCHANGED <<produced, terminated, source, observer>>

start ==
    /\ CanCall
    /\ Note("start")
    /\ IF state /= "stopped" THEN Return
       ELSE state' = "running" /\ subscribe
    /\ UNCHANGED <<produced, terminated, source, observer>>

stop ==
    /\ CanCall
    /\ Note("stop")
    /\ IF state = "stopped" THEN Return
       ELSE state' = "stopped" /\ unsubscribe /\ UNCHANGED <<stack, calls>>
    /\ UNCHANGED <<produced, terminated, source, observer>>

\* faulty variant: pause() without its guard
pauseUnguarded ==
    /\ CanCall
    /\ Note("pause")
    /\ state' = "paused" /\ unsubscribe /\ UNCHANGED <<stack, calls>>
    /\ UNCHANGED <<produced, terminated, source, observer>>

pause ==
    /\ CanCall
    /\ Note("pause")
    /\ IF state /= "running" THEN Return
       ELSE state' = "paused" /\ unsubscribe /\ UNCHANGED <<stack, calls>>
    /\ UNCHANGED <<produced, terminated, source, observer>>

\* faulty variant: resume() also leaves stopped
resumeUnguarded ==
    /\ CanCall
    /\ Note("resume")
    /\ IF state = "running" THEN Return
       ELSE state' = "running" /\ subscribe
    /\ UNCHANGED <<produced, terminated, source, observer>>

resume ==
    /\ CanCall
    /\ Note("resume")
    /\ IF state /= "paused" THEN Return
       ELSE state' = "running" /\ subscribe
    /\ UNCHANGED <<produced, terminated, source, observer>>

\* faulty variant: the table maps resume to start
ActionsResumeIsStart(action) ==
    CASE action = "start" -> start
      [] action = "stop" -> stop
      [] action = "pause" -> pause
      [] action = "resume" -> start

\* const ACTIONS = { start, stop, pause, resume }
Actions(action) ==
    CASE action = "start" -> start
      [] action = "stop" -> stop
      [] action = "pause" -> pause
      [] action = "resume" -> resume

\* command(action) => ACTIONS[action]()
command(action) == Actions(action)

(* ------------------- subscribe: synchronous delivery ------------------ *)
\* inside source$.subscribe the source emits its next synchronous value
SyncEmit ==
    /\ stack /= <<>> /\ Top.k = "subscribe" /\ Top.left > 0
    /\ RelayNext(source.sync - Top.left + 1, Top.sub, 0,
                 <<[Top EXCEPT !.left = @ - 1]>> \o Tail(stack))
    /\ UNCHANGED <<state, sourceSubscription, subs, produced, terminated,
                   source, observer, reentered, last,
                   everStarted, afterStop,
                   initialObserver, other>>

\* inside source$.subscribe the source terminates: error or complete reaches
\* the relay
SyncEnd ==
    /\ stack /= <<>> /\ Top.k = "subscribe" /\ Top.left = 0 /\ Top.end /= "none"
    /\ calls' = RelayEnd(Top.end, Top.sub, calls)
    /\ subs' = Finish(subs, Top.sub, Top.end)
    /\ stack' = <<[Top EXCEPT !.end = "none"]>> \o Tail(stack)
    /\ UNCHANGED <<state, sourceSubscription, produced, terminated, source,
                   observer, reentered, last,
                   everStarted, afterStop,
                   initialObserver, other>>

\* source$.subscribe returns; subscribe() stores the handle
SubscribeReturn ==
    /\ stack /= <<>> /\ Top.k = "subscribe" /\ Top.left = 0 /\ Top.end = "none"
    /\ sourceSubscription' = Top.sub
    /\ stack' = Tail(stack)
    /\ UNCHANGED <<state, subs, calls, produced, terminated, source, observer,
                   reentered, last,
                   everStarted, afterStop,
                   initialObserver, other>>

\* the observer's value handler returns
HandlerReturn ==
    /\ InHandler
    /\ stack' = Tail(stack)
    /\ UNCHANGED <<state, sourceSubscription, subs, calls, produced, terminated,
                   source, observer, reentered, last,
                   everStarted, afterStop,
                   initialObserver, other>>

(* ----------------------- the hot source's events ---------------------- *)
\* source$.next(v): the source delivers v to the subscriptions live now
Produce ==
    /\ AtTop
    /\ terminated = "no" /\ source.end = "none"
    /\ Len(produced) < MaxProduced
    /\ LET p == Len(produced) + 1
       IN  /\ produced' = Append(produced, [v |-> HotValue(p), st |-> state])
           /\ stack' = <<[k |-> "emit", v |-> HotValue(p), p |-> p,
                          targets |-> LiveSubs(subs)]>>
    /\ last' = NoCall
    /\ UNCHANGED <<state, sourceSubscription, subs, calls, terminated, source,
                   observer, reentered, everStarted, afterStop,
                   initialObserver, other>>

\* the value reaches the relay of the next subscription, unless closed meanwhile
Deliver ==
    /\ stack /= <<>> /\ Top.k = "emit" /\ Top.targets /= <<>>
    /\ LET h == Head(Top.targets)
           rest == <<[Top EXCEPT !.targets = Tail(@)]>> \o Tail(stack)
       IN  IF IsLive(subs, h)
               THEN RelayNext(Top.v, h, Top.p, rest)
               ELSE calls' = calls /\ stack' = rest
    /\ UNCHANGED <<state, sourceSubscription, subs, produced, terminated,
                   source, observer, reentered, last,
                   everStarted, afterStop,
                   initialObserver, other>>

\* source$.next(v) returns
Delivered ==
    /\ stack /= <<>> /\ Top.k = "emit" /\ Top.targets = <<>>
    /\ stack' = Tail(stack)
    /\ UNCHANGED <<state, sourceSubscription, subs, calls, produced, terminated,
                   source, observer, reentered, last,
                   everStarted, afterStop,
                   initialObserver, other>>

RECURSIVE RelayEndAll(_, _, _)
RelayEndAll(sig, hs, log) ==
    IF hs = <<>> THEN log
    ELSE RelayEndAll(sig, Tail(hs), RelayEnd(sig, Head(hs), log))

RECURSIVE FinishAll(_, _, _)
FinishAll(sig, hs, ss) ==
    IF hs = <<>> THEN ss
    ELSE FinishAll(sig, Tail(hs), Finish(ss, Head(hs), sig))

\* faulty variant: the controller stops by itself when the source terminates
TerminateAutoStop ==
    /\ AtTop
    /\ terminated = "no" /\ source.end = "none"
    /\ \E sig \in {"error", "complete"} :
        /\ terminated' = sig
        /\ calls' = RelayEndAll(sig, LiveSubs(subs), calls)
        /\ subs' = FinishAll(sig, LiveSubs(subs), subs)
    /\ state' = IF LiveSubs(subs) /= <<>> THEN "stopped" ELSE state
    /\ sourceSubscription' = IF LiveSubs(subs) /= <<>> THEN NoSub ELSE sourceSubscription
    /\ last' = NoCall
    /\ UNCHANGED <<stack, produced, source, observer, reentered, everStarted, afterStop,
                   initialObserver, other>>

\* source$.error(e) / source$.complete(): every live subscription gets the
\* signal and is finished; later subscriptions get it inside subscribe
Terminate ==
    /\ AtTop
    /\ terminated = "no" /\ source.end = "none"
    /\ \E sig \in {"error", "complete"} :
        /\ terminated' = sig
        /\ calls' = RelayEndAll(sig, LiveSubs(subs), calls)
        /\ subs' = FinishAll(sig, LiveSubs(subs), subs)
    /\ last' = NoCall
    /\ UNCHANGED <<state, sourceSubscription, stack, produced, source,
                   observer, reentered, everStarted, afterStop,
                   initialObserver, other>>

(* ----------------------- the cold source's events --------------------- *)
\* createPausable(interval(ms).pipe(take(n)), observer?)
InitCold ==
    /\ state = "stopped"
    /\ sourceSubscription = NoSub
    /\ subs = <<>>
    /\ stack = <<>>
    /\ calls = <<>>
    /\ produced = <<>>
    /\ terminated = "no"
    /\ source \in ColdKinds
    /\ observer \in SubArgs
    /\ reentered = FALSE
    /\ last = NoCall
    /\ everStarted = FALSE
    /\ afterStop = FALSE
    /\ initialObserver = observer
    /\ other = NoOther

\* a timer tick of subscription h: the source emits h's next value to its relay
ColdEmit(h) ==
    /\ AtTop
    /\ IsLive(subs, h) /\ subs[h].pos < source.take
    /\ subs' = [subs EXCEPT ![h].pos = @ + 1]
    /\ RelayNext(subs[h].pos, h, 0, <<>>)
    /\ last' = NoCall
    /\ UNCHANGED <<state, sourceSubscription, produced, terminated, source,
                   observer, reentered, everStarted, afterStop,
                   initialObserver, other>>

\* take(n): after its n-th value subscription h gets the completion signal
ColdComplete(h) ==
    /\ AtTop
    /\ IsLive(subs, h) /\ subs[h].pos = source.take
    /\ calls' = RelayEnd("complete", h, calls)
    /\ subs' = Finish(subs, h, "complete")
    /\ last' = NoCall
    /\ UNCHANGED <<state, sourceSubscription, stack, produced, terminated, source,
                   observer, reentered, everStarted, afterStop,
                   initialObserver, other>>

NextCold ==
    \/ start
    \/ stop
    \/ pause
    \/ resume
    \/ SubscribeReturn
    \/ HandlerReturn
    \/ \E h \in 1..MaxSubs : ColdEmit(h)
    \/ \E h \in 1..MaxSubs : ColdComplete(h)

SpecCold == InitCold /\ [][NextCold]_vars

(* ------------------- an observer object that changes ------------------ *)
\* createPausable(source$, observer) with an object as observer
InitMutable ==
    /\ Init
    /\ observer.kind = "object"

\* the caller assigns or deletes handlers of the observer object it passed:
\* observer.next = ..., delete observer.error, ... (one such change per run)
MutateObserver ==
    /\ AtTop
    /\ observer.kind = "object" /\ observer = initialObserver
    /\ \E h \in ObjectShapes \ {observer.handlers} :
          observer' = [observer EXCEPT !.handlers = h]
    /\ last' = NoCall
    /\ UNCHANGED <<state, sourceSubscription, subs, stack, calls, produced,
                   terminated, source, reentered, everStarted, afterStop,
                   initialObserver, other>>

NextMutable ==
    \/ start
    \/ stop
    \/ pause
    \/ resume
    \/ SyncEmit
    \/ SyncEnd
    \/ SubscribeReturn
    \/ HandlerReturn
    \/ Produce
    \/ Deliver
    \/ Delivered
    \/ Terminate
    \/ MutateObserver

SpecMutable == InitMutable /\ [][NextMutable]_vars

(* ------------------ two controllers on one hot source ----------------- *)
\* The variables state .. initialObserver describe the controller the caller
\* or the source is dealing with, `other` holds those of the other one; each
\* createPausable call has its own state and sourceSubscription (lines
\* 323-324), the source is the only thing they share.
Local(i) ==
    [id |-> i, state |-> state, sourceSubscription |-> sourceSubscription,
     subs |-> subs, calls |-> calls, produced |-> produced, observer |-> observer,
     initialObserver |-> initialObserver, reentered |-> reentered, last |-> last,
     everStarted |-> everStarted, afterStop |-> afterStop]

\* createPausable(source$, o): a new controller
Fresh(i, o) ==
    [id |-> i, state |-> "stopped", sourceSubscription |-> NoSub,
     subs |-> <<>>, calls |-> <<>>, produced |-> <<>>, observer |-> o,
     initialObserver |-> o, reentered |-> FALSE, last |-> NoCall,
     everStarted |-> FALSE, afterStop |-> FALSE]

\* the id of the controller the variables describe
Focus == 3 - other.id

\* the variables become those of controller c
Install(c) ==
    /\ state' = c.state
    /\ sourceSubscription' = c.sourceSubscription
    /\ subs' = c.subs
    /\ calls' = c.calls
    /\ produced' = c.produced
    /\ observer' = c.observer
    /\ initialObserver' = c.initialObserver
    /\ reentered' = c.reentered
    /\ last' = c.last
    /\ everStarted' = c.everStarted
    /\ afterStop' = c.afterStop

\* the observers of the two controllers: none, or a function
PairArgs == {o \in SubArgs : o.kind /= "object"}

\* const a = createPausable(source$, o1); const b = createPausable(source$, o2)
\* with source$ a Subject
InitPair ==
    /\ state = "stopped"
    /\ sourceSubscription = NoSub
    /\ subs = <<>>
    /\ stack = <<>>
    /\ calls = <<>>
    /\ produced = <<>>
    /\ terminated = "no"
    /\ source = [sync |-> 0, end |-> "none"]
    /\ observer \in PairArgs
    /\ reentered = FALSE
    /\ last = NoCall
    /\ everStarted = FALSE
    /\ afterStop = FALSE
    /\ initialObserver = observer
    /\ other \in {Fresh(2, o) : o \in PairArgs}

\* both controllers have been given every value produced so far
InSync == Len(other.produced) = Len(produced)

\* faulty variant: state is one variable shared by all controllers
SwapSharedState ==
    /\ AtTop /\ InSync
    /\ other' = [Local(Focus) EXCEPT !.last = NoCall]
    /\ Install([other EXCEPT !.state = state])
    /\ UNCHANGED <<stack, terminated, source>>

\* the caller turns to the other controller
Swap ==
    /\ AtTop /\ InSync
    /\ other' = [Local(Focus) EXCEPT !.last = NoCall]
    /\ Install(other)
    /\ UNCHANGED <<stack, terminated, source>>

\* source$.next(v), continued: after the subscriptions of one controller the
\* Subject delivers v to those of the other
ProduceOther ==
    /\ AtTop /\ Len(other.produced) < Len(produced)
    /\ LET p == Len(produced)
           v == produced[p].v
       IN  /\ Install([other EXCEPT !.produced = Append(@, [v |-> v, st |-> other.state]),
                                    !.last = NoCall])
           /\ stack' = <<[k |-> "emit", v |-> v, p |-> p,
                          targets |-> LiveSubs(other.subs)]>>
    /\ other' = [Local(Focus) EXCEPT !.last = NoCall]
    /\ UNCHANGED <<terminated, source>>

\* an operation is called by the caller between two source$.next calls, or
\* by the observer's value handler
Callable == ~AtTop \/ InSync
\* the source hands out MaxSubs subscriptions in all
CanSubscribe == Len(subs) + Len(other.subs) < MaxSubs

NextPair ==
    \/ Callable /\ (state = "stopped" => CanSubscribe) /\ start
    \/ Callable /\ stop
    \/ Callable /\ pause
    \/ Callable /\ (state = "paused" => CanSubscribe) /\ resume
    \/ SubscribeReturn
    \/ HandlerReturn
    \/ InSync /\ Produce
    \/ ProduceOther
    \/ Deliver
    \/ Delivered
    \/ Swap

SpecPair == InitPair /\ [][NextPair]_vars

(* ------- two controllers given the same operations and events ---------- *)
\* Controller 1, with any observer, leads: the caller calls an operation on
\* it, or the source produces or terminates; controller 2, built on the same
\* source without observer, is then given the same call or event.  The
\* observers do not call back here.
InitShapes ==
    /\ state = "stopped"
    /\ sourceSubscription = NoSub
    /\ subs = <<>>
    /\ stack = <<>>
    /\ calls = <<>>
    /\ produced = <<>>
    /\ terminated = "no"
    /\ source \in SourceKinds
    /\ observer \in SubArgs
    /\ reentered = FALSE
    /\ last = NoCall
    /\ everStarted = FALSE
    /\ afterStop = FALSE
    /\ initialObserver = observer
    /\ other = Fresh(2, [kind |-> "undefined", handlers |-> {}])

\* the source has terminated and the other controller has not been told yet
PendingEnd == terminated /= "no" /\ LiveSubs(other.subs) /= <<>>

\* both controllers have been given the same calls and events
Lead == Focus = 1 /\ AtTop /\ InSync /\ last.op = "none" /\ ~PendingEnd

\* the caller turns to controller 2 to repeat the call, or the source to end
\* its subscriptions
Handover ==
    /\ Focus = 1 /\ AtTop /\ InSync
    /\ last.op /= "none" \/ PendingEnd
    /\ other' = Local(1)
    /\ Install([other EXCEPT !.last = NoCall])
    /\ UNCHANGED <<stack, terminated, source>>

\* controller 2 is to be given the call op that controller 1 was given
Following(op) == Focus = 2 /\ AtTop /\ last.op = "none" /\ other.last.op = op

\* source$.error(e) / source$.complete(), continued: the live subscriptions
\* of controller 2 get the signal
EndOther ==
    /\ Focus = 2 /\ AtTop
    /\ terminated /= "no" /\ LiveSubs(subs) /= <<>>
    /\ calls' = RelayEndAll(terminated, LiveSubs(subs), calls)
    /\ subs' = FinishAll(terminated, LiveSubs(subs), subs)
    /\ UNCHANGED <<state, sourceSubscription, stack, produced, terminated, source,
                   observer, reentered, last, everStarted, afterStop,
                   initialObserver, other>>

\* controller 2 has been given the call or event: back to controller 1
HandBack ==
    /\ Focus = 2 /\ AtTop /\ InSync
    /\ ~(terminated /= "no" /\ LiveSubs(subs) /= <<>>)
    /\ last.op /= "none" \/ other.last.op = "none"
    /\ other' = [Local(2) EXCEPT !.last = NoCall]
    /\ Install([other EXCEPT !.last = NoCall])
    /\ UNCHANGED <<stack, terminated, source>>

NextShapes ==
    \/ Lead /\ start
    \/ Lead /\ stop
    \/ Lead /\ pause
    \/ Lead /\ resume
    \/ Lead /\ Produce
    \/ Lead /\ Terminate
    \/ Handover
    \/ Following("start") /\ start
    \/ Following("stop") /\ stop
    \/ Following("pause") /\ pause
    \/ Following("resume") /\ resume
    \/ Focus = 1 /\ ProduceOther
    \/ EndOther
    \/ HandBack
    \/ SyncEmit
    \/ SyncEnd
    \/ SubscribeReturn
    \/ HandlerReturn
    \/ Deliver
    \/ Delivered

SpecShapes == InitShapes /\ [][NextShapes]_vars

Next ==
    \/ start
    \/ stop
    \/ pause
    \/ resume
    \/ SyncEmit
    \/ SyncEnd
    \/ SubscribeReturn
    \/ HandlerReturn
    \/ Produce
    \/ Deliver
    \/ Delivered
    \/ Terminate

Spec == Init /\ [][Next]_vars

\* the controller driven through command(action) only
NextCommand ==
    \/ \E action \in Commands : command(action)
    \/ SyncEmit
    \/ SyncEnd
    \/ SubscribeReturn
    \/ HandlerReturn
    \/ Produce
    \/ Deliver
    \/ Delivered
    \/ Terminate

SpecCommand == Init /\ [][NextCommand]_vars

(* ============================== claims ================================ *)
\* the indices of the observer's value-channel invocations
NextCalls == {i \in DOMAIN calls : calls[i].ch = "next"}
\* the invocations of the value channel for the p-th produced value
ForwardsOf(p) == {i \in NextCalls : calls[i].p = p}
\* a hot source: a new subscription only observes future events
Hot == source.sync = 0 /\ source.end = "none"

\* C1 (I1): between operation calls, as long as the observer has never called back
\* into the controller, a subscription handle is held if and only if the
\* state is running, whatever operations and stream events came before.
C1_HandleIffRunning ==
    (AtTop /\ ~reentered) => (sourceSubscription /= NoSub <=> state = "running")

\* C1 witness: after start, a forwarded value, pause, resume, pause and a
\* stream termination, between calls, the observer never having called back.
C1_Witness ==
    /\ AtTop /\ ~reentered
    /\ state = "paused" /\ sourceSubscription = NoSub
    /\ Len(subs) = 2 /\ NextCalls /= {} /\ terminated /= "no"

\* C2 (P1, gating): every invocation of the observer's value channel happened
\* while the state was running at the moment the relay received the value,
\* and a value a hot source produced while stopped or paused is never
\* forwarded, neither then nor later; reentrant calls included.
C2_Gating ==
    \A i \in NextCalls :
        /\ calls[i].st = "running"
        /\ calls[i].p > 0 => produced[calls[i].p].st = "running"

\* C2 witness: a value was produced while not running and dropped, the
\* controller was started or resumed afterwards, and a later value was
\* forwarded; the observer has called back into the controller on the way.
C2_Witness ==
    /\ AtTop /\ reentered /\ Len(produced) = 2
    /\ produced[1].st /= "running" /\ ForwardsOf(1) = {}
    /\ ForwardsOf(2) /= {}

\* C3 (P2, forwarding): with a hot source and an observer that has a value
\* channel, every value produced while running is forwarded with the same
\* value, never twice, in production order, and exactly once by the time
\* its delivery has returned; reentrant calls included.
C3_Forwarding ==
    (Hot /\ HasNext(observer)) =>
        /\ \A p \in DOMAIN produced :
              /\ Cardinality(ForwardsOf(p)) <= 1
              /\ \A i \in ForwardsOf(p) : calls[i].v = produced[p].v
              /\ (produced[p].st = "running" /\ (AtTop \/ p < Len(produced)))
                    => Cardinality(ForwardsOf(p)) = 1
        /\ \A i, j \in NextCalls : i < j => calls[i].p < calls[j].p

\* C3 witness: a hot source, two values produced while running and both
\* forwarded, the observer having called back into the controller in between.
C3_Witness ==
    /\ Hot /\ AtTop /\ reentered
    /\ Len(produced) = 2 /\ Len(subs) = 2
    /\ \A p \in DOMAIN produced : produced[p].st = "running" /\ ForwardsOf(p) /= {}

\* the controller's own variables and what it makes the source and observer do
ctl == <<state, sourceSubscription, subs, stack, calls>>
\* calling op now would pass op's guard
WouldAct(op) ==
    CASE op = "start" -> state = "stopped"
      [] op = "pause" -> state = "running"
      [] op = "resume" -> state = "paused"
      [] op = "stop" -> state /= "stopped"
      [] OTHER -> FALSE
\* the values forwarded to the observer since its c-th invocation
ForwardedSince(c) ==
    LET s == SelectSeq(SubSeq(calls, c + 1, Len(calls)), LAMBDA e : e.ch = "next")
    IN  [i \in DOMAIN s |-> s[i].v]
\* the handle h was unsubscribed in this step
CancelledNow(h) ==
    /\ ~IsLive(subs', h)
    /\ subs'[h].cancels = subs[h].cancels + 1
\* this step made one subscribe call, which is now in progress
SubscribedNow ==
    /\ Len(subs') = Len(subs) + 1
    /\ IsLive(subs', Len(subs'))
    /\ \A h \in DOMAIN subs : subs'[h] = subs[h]
    /\ stack' /= <<>> /\ stack'[1].k = "subscribe" /\ stack'[1].sub = Len(subs')

\* C4 (reentrancy): once a start() or resume() during which the observer's
\* value handler called pause() or stop() has returned, leaving the controller
\* paused or stopped, no handle is held and no subscription is live.
C4_ReentrantRelease ==
    (AtTop /\ last.op \in {"start", "resume"} /\ last.re /\ state /= "running")
        => (sourceSubscription = NoSub /\ LiveSubs(subs) = <<>>)

\* C5: start() called while stopped sets the state to running and calls
\* subscribe on the source exactly once, and when that subscribe returns its
\* handle is stored as the held subscription.
C5_Start ==
    /\ [][(start /\ state = "stopped") => (state' = "running" /\ SubscribedNow)]_vars
    /\ [][SubscribeReturn => (sourceSubscription' = Top.sub /\ subs' = subs /\ state' = state)]_vars

\* C5 witness: a start() from stopped has returned: one more subscription
\* exists and its handle is held.
C5_Witness ==
    /\ AtTop /\ last.op = "start"
    /\ Len(subs) = last.n + 1 /\ sourceSubscription = Len(subs)
    /\ state = "running" /\ Len(calls) > last.c

C7_Resume ==
    /\ [][(resume /\ state = "paused") => (state' = "running" /\ SubscribedNow)]_vars
    /\ [][\A h \in DOMAIN subs :
            subs[h].status = "cancelled" => subs'[h].status = "cancelled"]_vars
    /\ [](sourceSubscription /= NoSub => subs[sourceSubscription].status /= "cancelled")

\* C7 witness: running again after pause() and resume(): the first
\* subscription is cancelled, the second one is live and held.
C7_Witness ==
    /\ AtTop /\ last.op = "resume" /\ Len(subs) = last.n + 1
    /\ Len(subs) = 2 /\ subs[1].status = "cancelled"
    /\ IsLive(subs, 2) /\ sourceSubscription = 2 /\ state = "running"

\* C8: stop() called while running or paused sets the state to stopped and
\* unsubscribes the held subscription if there is one; called while paused it
\* makes no unsubscribe call, no subscription being held then.
C8_Stop ==
    [][(stop /\ state /= "stopped") =>
          /\ state' = "stopped"
          /\ sourceSubscription' = NoSub
          /\ sourceSubscription /= NoSub => CancelledNow(sourceSubscription)
          /\ state = "paused" => (sourceSubscription = NoSub /\ subs' = subs)]_vars

C10_SyncForwarded ==
    (AtTop /\ last.op \in {"start", "resume"} /\ Len(subs) > last.n
        /\ HasNext(observer) /\ terminated = "no")
      => ForwardedSince(last.c) = [i \in 1..source.sync |-> i]

\* C10 amended: the same, provided the observer's value handler does not
\* call back into the controller during the call; and the state is already
\* running while the caller's start()/resume() is inside subscribe.
C10_SyncForwardedNoReentry ==
    /\ (AtTop /\ last.op \in {"start", "resume"} /\ Len(subs) > last.n /\ ~last.re
          /\ HasNext(observer) /\ terminated = "no")
        => ForwardedSince(last.c) = [i \in 1..source.sync |-> i]
    /\ (stack /= <<>> /\ Top.k = "subscribe" /\ Len(stack) = 1 /\ ~last.re)
        => state = "running"

\* C10 witness: a start() on a source that emits 1..MaxSync inside subscribe
\* has returned and the observer, which did not call back, has got them all.
C10_Witness ==
    /\ AtTop /\ last.op = "start" /\ ~last.re /\ Len(subs) > last.n
    /\ source.sync = MaxSync /\ HasNext(observer)
    /\ Len(ForwardedSince(last.c)) = MaxSync

\* C11 (P4, stop is total): from a call of stop() until the next call of
\* start(), no value is forwarded and the state stays stopped, however many
\* values the source produces and whatever stop(), pause() and resume()
\* calls are made meanwhile, by the caller or by the observer.
C11_StopTotal ==
    /\ [](afterStop => state = "stopped")
    /\ [][afterStop => NextCalls' = NextCalls]_vars
    /\ [][(afterStop /\ (resume \/ pause \/ stop)) => UNCHANGED ctl]_vars

\* C11 witness: the observer got a value, stop() was called, the source
\* produced a value that was not forwarded, and resume() has just been called.
C11_Witness ==
    /\ AtTop /\ afterStop /\ last.op = "resume"
    /\ NextCalls /= {} /\ produced /= <<>>
    /\ produced[Len(produced)].st = "stopped" /\ ForwardsOf(Len(produced)) = {}

\* C12 (P6, restartability): when a start() called while stopped (the state
\* every stop() leaves) has returned, the observer not having called back
\* during it, the controller is as a new one after start(): the state is
\* running, the new subscription is held and no other subscription of this
\* controller is live; and a value produced while running is forwarded
\* exactly once.
C12_Restart ==
    /\ (AtTop /\ last.op = "start" /\ Len(subs) > last.n /\ ~last.re) =>
          /\ state = "running"
          /\ sourceSubscription = Len(subs)
          /\ \A h \in DOMAIN subs : IsLive(subs, h) => h = Len(subs)
    /\ (AtTop /\ HasNext(observer)) =>
          \A p \in DOMAIN produced :
              produced[p].st = "running" => Cardinality(ForwardsOf(p)) = 1

\* the values forwarded to the observer from subscription h, in order
ForwardedFrom(h) ==
    LET s == SelectSeq(calls, LAMBDA e : e.ch = "next" /\ e.sub = h)
    IN  [i \in DOMAIN s |-> s[i].v]
\* the first n values of the cold source
ColdValues(n) == [i \in 1..n |-> i - 1]

\* C13 (P5, cold-source restart): with a cold source, the subscription a
\* start() or resume() makes starts at the source's first value; the values
\* forwarded from each subscription are the source's values from the first
\* one on, as many as the subscription was given, and the subscriptions
\* forward one after the other: what is forwarded after pause() and resume()
\* begins again with the first value and never continues the sequence of the
\* subscription that was paused.
C13_ColdRestart ==
    /\ [][((start /\ state = "stopped") \/ (resume /\ state = "paused")) =>
            (stack' /= <<>> /\ subs'[stack'[1].sub].pos = 0)]_vars
    /\ [](HasNext(observer) =>
            \A h \in DOMAIN subs : ForwardedFrom(h) = ColdValues(subs[h].pos))
    /\ [](\A i, j \in NextCalls : i < j => calls[i].sub <= calls[j].sub)

\* C13 witness: 0, 1 forwarded, then pause() and resume(), then 0, 1, 2.
C13_Witness ==
    /\ AtTop /\ ~reentered /\ Len(subs) = 2 /\ subs[1].status = "cancelled"
    /\ ForwardedSince(0) = <<0, 1, 0, 1, 2>>

\* C14 (command is a pure dispatch): in every reachable state and for each of
\* the four actions, a step is a step of command(action) if and only if it is
\* a step of the operation of that name: same next state, same handle, same
\* subscribe and unsubscribe calls, same observer calls.
C14_CommandDispatch ==
    [][/\ command("start") <=> start
       /\ command("stop") <=> stop
       /\ command("pause") <=> pause
       /\ command("resume") <=> resume]_vars

\* C14 witness: command('start'), command('pause') and command('resume')
\* have acted: the second subscription is live and held after the first one
\* was cancelled, and the observer has got values.
C14_Witness ==
    /\ AtTop /\ last.op = "resume" /\ Len(subs) = last.n + 1
    /\ state = "running" /\ sourceSubscription = 2
    /\ subs[1].cancels = 1 /\ NextCalls /= {}

\* C15 (initial state): a controller is created stopped, holding no handle
\* and without having subscribed; and as long as start() has not been called
\* it stays so and the observer is never invoked, whatever the source emits
\* and whatever pause(), resume() and stop() calls are made.
C15_Initial ==
    ~everStarted =>
        /\ state = "stopped"
        /\ sourceSubscription = NoSub
        /\ subs = <<>>
        /\ calls = <<>>

\* C15 witness: start() never called; stop() was called, the source produced
\* its values, terminated, and resume() has just been called.
C15_Witness ==
    /\ ~everStarted /\ afterStop /\ last.op = "resume"
    /\ Len(produced) = MaxProduced /\ terminated /= "no"

\* the invocations of the observer's channel sig for subscription h
EndCalls(h, sig) == {i \in DOMAIN calls : calls[i].ch = sig /\ calls[i].sub = h}

\* C16 (terminal signals are not gated): for every subscription and each of
\* error and complete, the observer's channel of that name has been invoked
\* exactly once if the relay of the subscription has received that signal and
\* the observer is an object with that handler, and never otherwise; an error
\* invocation carries the source's error; the state at that moment plays no
\* part.
C16_TerminalUngated ==
    \A h \in DOMAIN subs : \A sig \in {"error", "complete"} :
        /\ Cardinality(EndCalls(h, sig)) =
              IF subs[h].end = sig /\ HasEnd(observer, sig) THEN 1 ELSE 0
        /\ \A i \in EndCalls(h, sig) :
              calls[i].v = IF sig = "error" THEN ErrorValue ELSE NoValue

\* C16 witness: the observer's error handler was invoked with the source's
\* error while the state was paused or stopped.
C16_Witness ==
    \E i \in DOMAIN calls :
        calls[i].ch = "error" /\ calls[i].v = ErrorValue /\ calls[i].st /= "running"

\* C17 (I2): the state and the held handle change only in steps of start(),
\* stop(), pause() and resume(), the handle also when the subscribe call made
\* by start() or resume() returns; the delivery of a value, an error or a
\* completion changes neither, so after the source has completed or errored
\* the state stays running until stop() or pause() is called.
C17_OnlyOperations ==
    /\ [][state' /= state => (start \/ stop \/ pause \/ resume)]_vars
    /\ [][sourceSubscription' /= sourceSubscription =>
            (stop \/ pause \/ SubscribeReturn)]_vars
    /\ [][(SyncEmit \/ SyncEnd \/ Produce \/ Deliver \/ Delivered \/ Terminate
            \/ HandlerReturn) => UNCHANGED <<state, sourceSubscription>>]_vars
    /\ [][(state = "running" /\ state' /= "running") => (stop \/ pause)]_vars

\* C17 witness: between calls, the state is running and the held subscription
\* has finished: the source completed or errored after its values were
\* forwarded, and nothing was called since.
C17_Witness ==
    /\ AtTop /\ state = "running" /\ sourceSubscription /= NoSub /\ last.op = "none"
    /\ subs[sourceSubscription].status = "finished" /\ NextCalls /= {}

\* C18: the observer's error and completion channels are invoked only while
\* the state is running, for every sequence of operations and source events,
\* synchronous emission inside subscribe and operations called from the
\* value handler included.
C18_EndOnlyRunning ==
    \A i \in DOMAIN calls :
        calls[i].ch \in {"error", "complete"} => calls[i].st = "running"

\* the held subscription has finished: the source sent it error or complete
HeldFinished ==
    sourceSubscription /= NoSub /\ subs[sourceSubscription].status = "finished"

\* C19 (every operation succeeds): wherever an operation can be called,
\* between calls or from the observer's value handler, each of the four can
\* take its step (subscribe, while the source still hands out subscriptions),
\* and a call in progress can always go on to its return; pause() or stop()
\* called while running with a held subscription that has already finished
\* makes its transition, unsubscribes the finished subscription without
\* effect on it and clears the handle; and resume() from paused and start()
\* from stopped then subscribe anew.
C19_AlwaysSucceeds ==
    /\ [](CanCall =>
            /\ ENABLED stop
            /\ ENABLED pause
            /\ ENABLED start \/ (state = "stopped" /\ Len(subs) = MaxSubs)
            /\ ENABLED resume \/ (state = "paused" /\ Len(subs) = MaxSubs))
    /\ [](~AtTop => ENABLED (SyncEmit \/ SyncEnd \/ SubscribeReturn \/ HandlerReturn
                              \/ Deliver \/ Delivered))
    /\ [][((pause \/ stop) /\ state = "running" /\ HeldFinished) =>
            /\ state' = IF pause THEN "paused" ELSE "stopped"
            /\ sourceSubscription' = NoSub
            /\ subs'[sourceSubscription].status = "finished"
            /\ subs'[sourceSubscription].cancels = subs[sourceSubscription].cancels + 1]_vars
    /\ [][((resume /\ state = "paused") \/ (start /\ state = "stopped")) =>
            (state' = "running" /\ SubscribedNow)]_vars

\* C19 witness: the source completed or errored while the controller was
\* running; pause() then unsubscribed the finished subscription and resume()
\* has subscribed again.
C19_Witness ==
    /\ AtTop /\ last.op = "resume" /\ terminated /= "no"
    /\ Len(subs) = 2 /\ subs[1].status = "finished" /\ subs[1].cancels = 1
    /\ state = "running" /\ sourceSubscription = 2

\* a step inside a call in progress: the source delivering, a call returning
Internal ==
    SyncEmit \/ SyncEnd \/ SubscribeReturn \/ HandlerReturn \/ Deliver \/ Delivered
\* the steps a frame still has to take when the observer does not call back
FrameSteps(f) ==
    CASE f.k = "subscribe" -> 2 * f.left + (IF f.end = "none" THEN 0 ELSE 1) + 1
      [] f.k = "emit" -> 3 * Len(f.targets) + 1
      [] OTHER -> 1
RECURSIVE StackSteps(_)
StackSteps(s) == IF s = <<>> THEN 0 ELSE FrameSteps(Head(s)) + StackSteps(Tail(s))

\* C20 (no terminal state): in every reachable state, whether or not the
\* source has completed or errored, the machine can go on.  Between calls,
\* stop() leads to stopped in one step, pause() leads from running to paused
\* in one step, and start() from stopped and resume() from paused set the
\* state to running (while the source still hands out subscriptions).  A
\* call in progress can always take a step that keeps the state, and every
\* such step brings the return of the calls in progress nearer, so that the
\* call returns in that state if the observer does not call back.  Hence
\* stopped is reached with one operation, running with at most two, and
\* paused with at most two.
C20_NoTerminalState ==
    /\ [](AtTop =>
            /\ ENABLED (stop /\ state' = "stopped" /\ stack' = <<>>)
            /\ state = "running" => ENABLED (pause /\ state' = "paused" /\ stack' = <<>>)
            /\ (state = "stopped" /\ Len(subs) < MaxSubs) =>
                  ENABLED (start /\ state' = "running")
            /\ (state = "paused" /\ Len(subs) < MaxSubs) =>
                  ENABLED (resume /\ state' = "running"))
    /\ [](~AtTop => ENABLED (Internal /\ state' = state))
    /\ [][Internal => StackSteps(stack') < StackSteps(stack)]_vars

\* C20 witness: the source terminated while the controller was running, and
\* the controller has since been paused, resumed and paused again.
C20_Witness ==
    /\ AtTop /\ terminated /= "no" /\ state = "paused" /\ last.op = "pause"
    /\ Len(subs) = 2 /\ subs[1].status = "finished" /\ subs[1].cancels = 1
    /\ subs[2].status = "finished" /\ subs[2].cancels = 1

\* C22 (a function observer is the value channel only): with a function as
\* observer, every invocation is one of the value channel, made while the
\* state was running, and every value the relay receives while the state is
\* running invokes it once; an error or a completion the relay receives
\* invokes nothing, changes neither the state nor the handle, and the step
\* is taken (nothing is thrown).
C22_CallableValueOnly ==
    /\ [](observer.kind = "function" =>
            \A i \in DOMAIN calls : calls[i].ch = "next" /\ calls[i].st = "running")
    /\ [][(observer.kind = "function" /\ state = "running"
            /\ (SyncEmit \/ (Deliver /\ IsLive(subs, Head(Top.targets))))) =>
            (Len(calls') = Len(calls) + 1 /\ calls'[Len(calls')].ch = "next")]_vars
    /\ [][(observer.kind = "function" /\ (SyncEnd \/ Terminate)) =>
            UNCHANGED <<calls, state, sourceSubscription>>]_vars
    /\ [](observer.kind = "function" =>
            /\ (~AtTop /\ Top.k = "subscribe" /\ Top.left = 0 /\ Top.end /= "none")
                  => ENABLED SyncEnd
            /\ (AtTop /\ terminated = "no" /\ source.end = "none") => ENABLED Terminate)

\* C22 witness: a function observer has got a value, then the source sent an
\* error to the subscription, and the function was not invoked again.
C22_Witness ==
    /\ observer.kind = "function" /\ AtTop /\ state = "running"
    /\ \E h \in DOMAIN subs : subs[h].end = "error" /\ ForwardedFrom(h) /= <<>>
    /\ \A i \in DOMAIN calls : calls[i].ch = "next"

\* C24: in every reachable state, calls nested in the observer's value
\* handler during synchronous emission included, at most one subscription of
\* the controller is live, none is live while the state is stopped or
\* paused, and start() and resume() subscribe only when no earlier
\* subscription is live.
C24_AtMostOneLive ==
    /\ [](Len(LiveSubs(subs)) <= 1)
    /\ [](state \in {"stopped", "paused"} => LiveSubs(subs) = <<>>)
    /\ [][Len(subs') > Len(subs) => LiveSubs(subs) = <<>>]_vars

\* C25: every subscription is unsubscribed at most once; an unsubscribe call
\* is made by stop() or pause() only, on the handle held at that moment, and
\* the handle is cleared with it; so a stop() or pause() that follows with no
\* subscribe in between makes no unsubscribe call.
C25_CancelOnce ==
    /\ [](\A h \in DOMAIN subs : subs[h].cancels <= 1)
    /\ [][\A h \in DOMAIN subs : subs'[h].cancels /= subs[h].cancels =>
            /\ stop \/ pause
            /\ h = sourceSubscription
            /\ sourceSubscription' = NoSub
            /\ subs'[h].cancels = subs[h].cancels + 1]_vars
    /\ [][((stop \/ pause) /\ sourceSubscription = NoSub) =>
            \A h \in DOMAIN subs : subs'[h].cancels = subs[h].cancels]_vars

\* C25 witness: pause() unsubscribed the only subscription, a value was
\* produced while paused, and the stop() called after it, from paused, has
\* left the subscription unsubscribed once.
C25_Witness ==
    /\ AtTop /\ ~reentered /\ last.op = "stop" /\ state = "stopped"
    /\ Len(subs) = 1 /\ subs[1].status = "cancelled" /\ subs[1].cancels = 1
    /\ produced /= <<>> /\ produced[Len(produced)].st = "paused"

\* C26 (the observer is normalized once, at construction): every invocation
\* is made on a channel for which the observer had a handler when the
\* controller was constructed, whatever handlers were assigned to or deleted
\* from the observer object afterwards.
C26_NormalizedOnce ==
    \A i \in DOMAIN calls :
        IF calls[i].ch = "next" THEN HasNext(initialObserver)
        ELSE HasEnd(initialObserver, calls[i].ch)

\* the invocations in the log cs of the value channel for the p-th value
ForwardsIn(cs, p) == {i \in DOMAIN cs : cs[i].ch = "next" /\ cs[i].p = p}
\* a controller with observer o, log cs of invocations and record pr of the
\* values produced and of its own state at each production has forwarded
\* exactly the values produced while it was running, once each
OwnForwarding(cs, pr, o) ==
    IF HasNext(o)
        THEN \A p \in DOMAIN pr :
                /\ Cardinality(ForwardsIn(cs, p)) = IF pr[p].st = "running" THEN 1 ELSE 0
                /\ \A i \in ForwardsIn(cs, p) : cs[i].v = pr[p].v
        ELSE cs = <<>>

\* C23 (controllers are independent): with two controllers on one hot
\* source, a step of an operation of one controller, of its subscribe call
\* or of a delivery to it leaves the other controller's state, handle and
\* subscriptions as they are; and once a value has been delivered, each
\* controller has forwarded it once if its own state was running when the
\* value was produced, and not at all otherwise.
C23_Independent ==
    /\ [][(start \/ stop \/ pause \/ resume \/ SubscribeReturn \/ HandlerReturn
            \/ Produce \/ Deliver \/ Delivered) => other' = other]_vars
    /\ []((AtTop /\ InSync) =>
            /\ OwnForwarding(calls, produced, observer)
            /\ OwnForwarding(other.calls, other.produced, other.observer))

\* C23 witness: both controllers were started and forwarded the first value;
\* then one was paused and the second value was forwarded by the other only.
C23_Witness ==
    /\ AtTop /\ InSync /\ Len(produced) = 2
    /\ state = "running" /\ other.state = "paused"
    /\ HasNext(observer) /\ HasNext(other.observer)
    /\ ForwardsIn(calls, 1) /= {} /\ ForwardsIn(other.calls, 1) /= {}
    /\ ForwardsIn(calls, 2) /= {} /\ ForwardsIn(other.calls, 2) = {}

\* what the controller has made the source do: per subscription, whether it
\* is live, cancelled or finished and how often it was unsubscribed
SourceCalls(ss) == [h \in DOMAIN ss |-> [status |-> ss[h].status, cancels |-> ss[h].cancels]]

\* C21 (the observer's shape does not influence the state machine): a
\* controller with any observer and a controller without observer that have
\* been given the same operation calls and the same source events are in the
\* same state, hold the same handle and have made the same subscribe and
\* unsubscribe calls; the controller without observer enters running on
\* start() and subscribes, its observer log stays empty and every delivery
\* to it can take its step.
C21_ShapeIndependent ==
    /\ [](Lead =>
            /\ state = other.state
            /\ sourceSubscription = other.sourceSubscription
            /\ SourceCalls(subs) = SourceCalls(other.subs))
    /\ []((Focus = 2 /\ AtTop /\ last.op /= "none") =>
            /\ state = other.state
            /\ sourceSubscription = other.sourceSubscription
            /\ SourceCalls(subs) = SourceCalls(other.subs))
    /\ [][(Focus = 2 /\ start /\ state = "stopped") =>
            (state' = "running" /\ SubscribedNow)]_vars
    /\ [](Focus = 2 => (calls = <<>> /\ (~AtTop => ENABLED Internal)))

\* C21 witness: both controllers have been started, given a value, which the
\* first one forwarded, paused, resumed and given the source's error, which
\* the first one forwarded too.
C21_Witness ==
    /\ Lead /\ state = "running" /\ Len(subs) = 2 /\ subs[1].cancels = 1
    /\ subs[2].end = "error" /\ other.subs[2].end = "error"
    /\ NextCalls /= {} /\ EndCalls(2, "error") /= {}
    /\ other.calls = <<>>

====
